---- MODULE Spec2Model ----
(***************************************************************************)
(* Grid / voxel aggregation engine of PELEpharmacophore.                   *)
(*                                                                         *)
(* Two implementations live side by side in the repository:                *)
(*   GridAnalyzer (analysis/grid_analyzer.py) and Target (target.py).      *)
(* Both use the Grid / Voxel classes of the grid module and, for           *)
(* GridAnalyzer, the dictionary helpers of the helpers module; neither     *)
(* module is part of the source tree, so Grid, Voxel, frequency_dict and   *)
(* list_dict are modelled from the specification's data model.             *)
(*                                                                         *)
(* Python dictionaries are functions whose DOMAIN is the set of keys,      *)
(* Python lists are sequences, 0-based indices are shifted to 1-based.     *)
(* Coordinates are integers in a unit for which all voxel centers are      *)
(* integral.                                                               *)
(***************************************************************************)
EXTENDS Integers, Sequences, FiniteSets, TLC

VARIABLES
    \* ---- merge_grids called on two grids (SpecMerge)
    ga,          \* first operand ("grid") before the call
    gb,          \* second operand ("other_grid")
    gm,          \* the returned grid, or None
    gaPost,      \* the object "grid" after the call (in-place effects)
    merr,        \* exception raised by the call, "none" if it returned
    mpc,         \* "build" while the operands are being filled, then "merged"
    \* ---- trajectories analysed in parallel, snapshots reduced (Spec)
    heap,        \* the Grid objects: heap[r] is the value of the object with reference r
    traj_grid,   \* per trajectory, the reference its local traj_grid is bound to
    step,        \* per trajectory, the number of accepted steps already processed
    wpc,         \* per trajectory, "start", "loop" or "returned"
    snaps,       \* per trajectory, the value of its snapshot when it was returned
    pool,        \* the grids still to be reduced: [ref, trajs] with the trajectories merged in
    baseUsed,    \* trajectories whose own snapshot was passed to merge_grids as "grid"
    atoms,       \* feature points registered so far
    \* ---- check_voxels applied to the atoms of one model (SpecAssign)
    grid_atoms,  \* the atoms inside the grid: a list of [coord, feature]
    voxel_inds,  \* result of GridAnalyzer.check_voxels, None before the call
    voxel_dict,  \* result of Target.check_voxels, None before the call
    apc,         \* "input", "GridAnalyzer" or "Target": what has run
    \* ---- set_frequency_filter and save_pharmacophores on a filled grid (SpecFilter)
    impl,        \* "GridAnalyzer" or "Target": the class in use
    fgrid,       \* self.grid
    threshold_dict, \* self.threshold_dict: feature -> cutoff, in tenths
    lastArg,     \* the threshold argument of the last set_frequency_filter call
    prev,        \* the call before the last one: [called, arg, dict]
    ferr,        \* the exception that ended the run, "none" otherwise
    files,       \* the pharmacophore files: feature -> list of records
    files0,      \* the files as they were before the run
    nsaves,      \* completed save_pharmacophores calls
    fpc,         \* "filled", "filtered", "saved" or "failed"
    \* ---- the main program of target.py (SpecTarget)
    dicts,       \* per file, the voxel_dict its worker returned, None while it runs
    voxel_dict_all, \* Target.voxel_dict_all
    nmerged,     \* how many entries of dicts were passed to merge_voxel_dicts
    tgrid,       \* Target.grid
    tthreshold_dict, \* Target.threshold_dict
    tpc          \* "map", "fold", "frequencies", "filter" or "done"

mergeVars == <<ga, gb, gm, gaPost, merr, mpc>>

gridVars == <<heap, traj_grid, step, wpc, snaps, pool, baseUsed, atoms>>

assignVars == <<grid_atoms, voxel_inds, voxel_dict, apc>>

filterVars == <<impl, fgrid, threshold_dict, lastArg, prev, ferr, files, files0, nsaves, fpc>>

targetVars == <<dicts, voxel_dict_all, nmerged, tgrid, tthreshold_dict, tpc>>

vars == <<mergeVars, gridVars, assignVars, filterVars, targetVars>>

\* Python's None where a grid is expected: a grid-shaped value no Grid() equals
None == [center |-> << >>, radius |-> 0, resolution |-> 0, voxels |-> << >>]

Features == {"ARO", "HBD"}

EmptyDict == [k \in {} |-> 0]

----------------------------------------------------------------------------
(* helpers module: frequency_dict and list_dict                            *)

\* d[key] += value, creating the key when absent
frequency_dict(d, key, value) ==
    IF key \in DOMAIN d
    THEN [d EXCEPT ![key] = @ + value]
    ELSE [k \in DOMAIN d \cup {key} |-> IF k = key THEN value ELSE d[k]]

\* d.setdefault(key, []).append(value)
list_dict(d, key, value) ==
    IF key \in DOMAIN d
    THEN [d EXCEPT ![key] = Append(@, value)]
    ELSE [k \in DOMAIN d \cup {key} |-> IF k = key THEN <<value>> ELSE d[k]]

----------------------------------------------------------------------------
(* grid module: Grid and Voxel                                             *)

Cube(n) == n * n * n

\* center of voxel (i, j, k), 0-based, along one axis: v_min + (i + 0.5) * (2R / N)
AxisCenter(c, radius, n, i) == (c - radius) + ((2 * i + 1) * radius) \div n

\* row-major enumeration of (i, j, k): index = i * N^2 + j * N + k
VoxelCenter(center, radius, n, idx) ==
    LET i == idx \div (n * n)
        j == (idx \div n) % n
        k == idx % n
    IN  <<AxisCenter(center[1], radius, n, i),
          AxisCenter(center[2], radius, n, j),
          AxisCenter(center[3], radius, n, k)>>

Voxel(c) == [center |-> c, freq_dict |-> EmptyDict, origin_dict |-> EmptyDict]

\* Grid(center, radius) followed by generate_voxels()
Grid(center, radius, n) ==
    [center |-> center, radius |-> radius, resolution |-> n,
     voxels |-> [idx \in 1..Cube(n) |-> Voxel(VoxelCenter(center, radius, n, idx - 1))]]

\* Grid.is_empty(): no voxel has registered any feature
is_empty(grid) == \A i \in 1..Len(grid.voxels) : DOMAIN grid.voxels[i].freq_dict = {}

\* one occurrence of a feature with its provenance tag registered in a voxel
count_feature(voxel, feature, tag) ==
    [voxel EXCEPT !.freq_dict = frequency_dict(@, feature, 1),
                  !.origin_dict = list_dict(@, feature, tag)]

\* Voxel.set_frequencies(freq_dict)
set_frequencies(voxel, freq_dict) == [voxel EXCEPT !.freq_dict = freq_dict]

----------------------------------------------------------------------------
(* GridAnalyzer.merge_grids                                                *)

\* for model in other_models: voxel.origin_dict = list_dict(voxel.origin_dict, feature, model)
RECURSIVE AppendModels(_, _, _, _)
AppendModels(origin_dict, feature, other_models, k) ==
    IF k > Len(other_models) THEN origin_dict
    ELSE AppendModels(list_dict(origin_dict, feature, other_models[k]),
                      feature, other_models, k + 1)

\* the loop body with the count of other_voxel assigned instead of added
RECURSIVE MergeFeatures_Overwrite(_, _, _)
MergeFeatures_Overwrite(voxel, other_voxel, todo) ==
    IF todo = {} THEN [voxel |-> voxel, err |-> "none"]
    ELSE LET feature == CHOOSE f \in todo : TRUE
             freq    == frequency_dict([k \in DOMAIN voxel.freq_dict \ {feature} |-> voxel.freq_dict[k]],
                                       feature, other_voxel.freq_dict[feature])
         IN  MergeFeatures_Overwrite(
                 [voxel EXCEPT !.freq_dict = freq,
                               !.origin_dict = AppendModels(@, feature,
                                                   other_voxel.origin_dict[feature], 1)],
                 other_voxel, todo \ {feature})

\* body of "for feature, other_freq in other_voxel.freq_dict.items()";
\* a feature missing from other_voxel.origin_dict raises KeyError
RECURSIVE MergeFeatures(_, _, _)
MergeFeatures(voxel, other_voxel, todo) ==
    IF todo = {} THEN [voxel |-> voxel, err |-> "none"]
    ELSE LET feature == CHOOSE f \in todo : TRUE
             freq    == frequency_dict(voxel.freq_dict, feature, other_voxel.freq_dict[feature])
         IN  IF feature \notin DOMAIN other_voxel.origin_dict
             THEN [voxel |-> [voxel EXCEPT !.freq_dict = freq], err |-> "KeyError"]
             ELSE MergeFeatures(
                      [voxel EXCEPT !.freq_dict = freq,
                                    !.origin_dict = AppendModels(@, feature,
                                                        other_voxel.origin_dict[feature], 1)],
                      other_voxel, todo \ {feature})

\* "for i, other_voxel in enumerate(other_grid.voxels)": grid.voxels[i] raises
\* IndexError once i runs past the voxels of grid
RECURSIVE MergeVoxels(_, _, _)
MergeVoxels(grid, other_grid, i) ==
    IF i > Len(other_grid.voxels) THEN [grid |-> grid, err |-> "none"]
    ELSE IF i > Len(grid.voxels) THEN [grid |-> grid, err |-> "IndexError"]
    ELSE LET other_voxel == other_grid.voxels[i]
             r == MergeFeatures(grid.voxels[i], other_voxel, DOMAIN other_voxel.freq_dict)
             g == [grid EXCEPT !.voxels[i] = r.voxel]
         IN  IF r.err # "none" THEN [grid |-> g, err |-> r.err]
             ELSE MergeVoxels(g, other_grid, i + 1)

\* merge_grids with its operands taken in the wrong order
merge_grids_Swapped(grid, other_grid) ==
    IF is_empty(other_grid)
    THEN [ret |-> grid, base |-> grid, copied |-> TRUE, err |-> "none"]
    ELSE LET r == MergeVoxels(other_grid, grid, 1)
         IN  [ret |-> IF r.err = "none" THEN r.grid ELSE None,
              base |-> r.grid, copied |-> FALSE, err |-> r.err]

\* merge_grids with the is_empty test inverted
merge_grids_Inverted(grid, other_grid) ==
    IF ~is_empty(grid)
    THEN [ret |-> other_grid, base |-> grid, copied |-> TRUE, err |-> "none"]
    ELSE LET r == MergeVoxels(grid, other_grid, 1)
         IN  [ret |-> IF r.err = "none" THEN r.grid ELSE None,
              base |-> r.grid, copied |-> FALSE, err |-> r.err]

\* merge_grids without the shortcut taken for an empty first operand
merge_grids_NoShortcut(grid, other_grid) ==
    LET r == MergeVoxels(grid, other_grid, 1)
    IN  [ret |-> IF r.err = "none" THEN r.grid ELSE None,
         base |-> r.grid, copied |-> FALSE, err |-> r.err]

\* The result of merge_grids(grid, other_grid):
\*   ret    the value of the returned grid (None when an exception is raised)
\*   base   the value of the object "grid" after the call (it is updated in place)
\*   copied TRUE when the returned grid is a fresh deep copy of other_grid
merge_grids(grid, other_grid) ==
    IF is_empty(grid)
    THEN [ret |-> other_grid, base |-> grid, copied |-> TRUE, err |-> "none"]
    ELSE LET r == MergeVoxels(grid, other_grid, 1)
         IN  [ret |-> IF r.err = "none" THEN r.grid ELSE None,
              base |-> r.grid, copied |-> FALSE, err |-> r.err]

----------------------------------------------------------------------------
(* SpecMerge: two grids are filled by the aggregator, then merged          *)

MaxPts == 3

\* a common multiple of the resolutions, so that every voxel center is integral
Radius == 2 * 3

Centers == {<<0, 0, 0>>, <<1, 0, 0>>}

Resolutions == {2, 3}

\* voxel indices that receive feature points
HitVoxels == {1, 2}

NPoints(grid) ==
    LET RECURSIVE Sum(_)
        Sum(i) == IF i > Len(grid.voxels) THEN 0
                  ELSE LET RECURSIVE SumF(_)
                           SumF(fs) == IF fs = {} THEN 0
                                       ELSE LET f == CHOOSE x \in fs : TRUE
                                            IN  grid.voxels[i].freq_dict[f] + SumF(fs \ {f})
                       IN  SumF(DOMAIN grid.voxels[i].freq_dict) + Sum(i + 1)
    IN  Sum(1)

\* the variables of the parallel analysis, at rest
MergeIdle ==
    /\ ga = None
    /\ gb = None
    /\ gm = None
    /\ gaPost = None
    /\ merr = "none"
    /\ mpc = "idle"

AssignIdle ==
    /\ grid_atoms = << >>
    /\ voxel_inds = << >>
    /\ voxel_dict = << >>
    /\ apc = "idle"

NoCall == [called |-> FALSE, arg |-> 0, dict |-> EmptyDict]

FilterIdle ==
    /\ impl = "none"
    /\ fgrid = None
    /\ threshold_dict = EmptyDict
    /\ lastArg = 0
    /\ prev = NoCall
    /\ ferr = "none"
    /\ files = EmptyDict
    /\ files0 = EmptyDict
    /\ nsaves = 0
    /\ fpc = "idle"

TargetIdle ==
    /\ dicts = << >>
    /\ voxel_dict_all = EmptyDict
    /\ nmerged = 0
    /\ tgrid = None
    /\ tthreshold_dict = EmptyDict
    /\ tpc = "idle"

GridIdle ==
    /\ heap = << >>
    /\ traj_grid = << >>
    /\ step = << >>
    /\ wpc = << >>
    /\ snaps = << >>
    /\ pool = {}
    /\ baseUsed = {}
    /\ atoms = 0

InitMerge ==
    /\ GridIdle
    /\ AssignIdle
    /\ FilterIdle
    /\ TargetIdle
    /\ ga \in {Grid(c, Radius, n) : c \in Centers, n \in Resolutions}
    /\ gb \in {Grid(c, Radius, n) : c \in Centers, n \in Resolutions}
    /\ gm = None
    /\ gaPost = None
    /\ merr = "none"
    /\ mpc = "build"

\* the aggregator registers one feature point of trajectory "a" in ga
CountA ==
    /\ mpc = "build"
    /\ NPoints(ga) + NPoints(gb) < MaxPts
    /\ \E i \in HitVoxels, f \in Features :
          ga' = [ga EXCEPT !.voxels[i] = count_feature(@, f, <<"a", NPoints(ga) + 1>>)]
    /\ UNCHANGED <<gb, gm, gaPost, merr, mpc>>
    /\ UNCHANGED <<gridVars, assignVars, filterVars, targetVars>>

\* the aggregator registers one feature point of trajectory "b" in gb
CountB ==
    /\ mpc = "build"
    /\ NPoints(ga) + NPoints(gb) < MaxPts
    /\ \E i \in HitVoxels, f \in Features :
          gb' = [gb EXCEPT !.voxels[i] = count_feature(@, f, <<"b", NPoints(gb) + 1>>)]
    /\ UNCHANGED <<ga, gm, gaPost, merr, mpc>>
    /\ UNCHANGED <<gridVars, assignVars, filterVars, targetVars>>

\* merge_grids(ga, gb)
Merge ==
    /\ mpc = "build"
    /\ LET r == merge_grids(ga, gb)
       IN  /\ gm' = r.ret
           /\ gaPost' = r.base
           /\ merr' = r.err
    /\ mpc' = "merged"
    /\ UNCHANGED <<ga, gb>>
    /\ UNCHANGED <<gridVars, assignVars, filterVars, targetVars>>

NextMerge == CountA \/ CountB \/ Merge

SpecMerge == InitMerge /\ [][NextMerge]_vars

----------------------------------------------------------------------------
(* Spec: GridAnalyzer.analyze_trajectory run once per trajectory by the    *)
(* worker pool, the returned grids reduced with merge_grids                *)

MaxAtoms == 3

Trajs == {"t1", "t2", "t3"}

\* the accepted steps of a trajectory's report
AcceptedSteps == <<1, 2>>

\* A reference is <<owner, k>>: the k-th object allocated by a worker (the name
\* of its trajectory) or by the coordinating thread ("main").
Unbound == <<"none", 0>>

\* reference of self.grid
selfGrid == <<"main", 1>>

NewRef(h, owner) == <<owner, Cardinality({r \in DOMAIN h : r[1] = owner}) + 1>>

\* copy.deepcopy(obj) that hands back the object itself
ShallowCopy(h, ref, owner) == [heap |-> h, ref |-> ref]

\* copy.deepcopy(obj), run by owner: a new object with an equal value
DeepCopy(h, ref, owner) ==
    LET new == NewRef(h, owner)
    IN  [heap |-> [r \in DOMAIN h \cup {new} |-> IF r = new THEN h[ref] ELSE h[r]],
         ref |-> new]

\* the per-model grid of check_voxels: a deep copy of self.grid holding the atoms of
\* the model in their voxels
ModelGrid(h, i, feature, tag, owner) ==
    LET c == DeepCopy(h, selfGrid, owner)
    IN  [heap |-> [c.heap EXCEPT ![c.ref].voxels[i] = count_feature(@, feature, tag)],
         ref |-> c.ref]

\* merge_grids on objects: "grid" is rebound to a deep copy of other_grid when it
\* is empty and updated in place otherwise; ref is the returned object
MergeObjects(h, grid, other_grid, owner) ==
    LET r == merge_grids(h[grid], h[other_grid])
    IN  IF r.copied
        THEN DeepCopy(h, other_grid, owner)
        ELSE [heap |-> [h EXCEPT ![grid] = r.base], ref |-> grid]

Init ==
    /\ heap = [r \in {selfGrid} |-> Grid(<<0, 0, 0>>, Radius, 2)]
    /\ traj_grid = [t \in Trajs |-> Unbound]
    /\ step = [t \in Trajs |-> 0]
    /\ wpc = [t \in Trajs |-> "start"]
    /\ snaps = [t \in Trajs |-> None]
    /\ pool = {}
    /\ baseUsed = {}
    /\ atoms = 0
    /\ MergeIdle
    /\ AssignIdle
    /\ FilterIdle
    /\ TargetIdle

\* traj_grid = copy.deepcopy(self.grid)
StartTrajectory(t) ==
    /\ wpc[t] = "start"
    /\ LET c == DeepCopy(heap, selfGrid, t)
       IN  /\ heap' = c.heap
           /\ traj_grid' = [traj_grid EXCEPT ![t] = c.ref]
    /\ wpc' = [wpc EXCEPT ![t] = "loop"]
    /\ UNCHANGED <<step, snaps, pool, baseUsed, atoms>>
    /\ UNCHANGED <<mergeVars, assignVars, filterVars, targetVars>>

\* an accepted step whose model has no atom inside the grid
EmptyStep(t) ==
    /\ wpc[t] = "loop"
    /\ step[t] < Len(AcceptedSteps)
    /\ step' = [step EXCEPT ![t] = @ + 1]
    /\ UNCHANGED <<heap, traj_grid, wpc, snaps, pool, baseUsed, atoms>>
    /\ UNCHANGED <<mergeVars, assignVars, filterVars, targetVars>>

\* an accepted step with an atom of a feature in voxel i:
\* model_grid = check_voxels(grid_atoms); traj_grid = merge_grids(traj_grid, model_grid)
AtomStep(t) ==
    /\ wpc[t] = "loop"
    /\ step[t] < Len(AcceptedSteps)
    /\ atoms < MaxAtoms
    /\ \E i \in HitVoxels, f \in Features :
          LET m == ModelGrid(heap, i, f, <<t, AcceptedSteps[step[t] + 1]>>, t)
              r == MergeObjects(m.heap, traj_grid[t], m.ref, t)
          IN  /\ heap' = r.heap
              /\ traj_grid' = [traj_grid EXCEPT ![t] = r.ref]
    /\ step' = [step EXCEPT ![t] = @ + 1]
    /\ atoms' = atoms + 1
    /\ UNCHANGED <<wpc, snaps, pool, baseUsed>>
    /\ UNCHANGED <<mergeVars, assignVars, filterVars, targetVars>>

\* return traj_grid
ReturnTrajectory(t) ==
    /\ wpc[t] = "loop"
    /\ step[t] = Len(AcceptedSteps)
    /\ wpc' = [wpc EXCEPT ![t] = "returned"]
    /\ snaps' = [snaps EXCEPT ![t] = heap[traj_grid[t]]]
    /\ pool' = pool \cup {[ref |-> traj_grid[t], trajs |-> {t}]}
    /\ UNCHANGED <<heap, traj_grid, step, baseUsed, atoms>>
    /\ UNCHANGED <<mergeVars, assignVars, filterVars, targetVars>>

\* once every worker has returned: merge_grids(a, b) on any two grids still to be
\* reduced, in any order and grouping
Reduce ==
    /\ \A t \in Trajs : wpc[t] = "returned"
    /\ \E a \in pool, b \in pool :
          /\ a # b
          /\ LET r == MergeObjects(heap, a.ref, b.ref, "main")
             IN  /\ heap' = r.heap
                 /\ pool' = (pool \ {a, b}) \cup {[ref |-> r.ref, trajs |-> a.trajs \cup b.trajs]}
          /\ baseUsed' = IF Cardinality(a.trajs) = 1 THEN baseUsed \cup a.trajs ELSE baseUsed
    /\ UNCHANGED <<traj_grid, step, wpc, snaps, atoms>>
    /\ UNCHANGED <<mergeVars, assignVars, filterVars, targetVars>>

Next ==
    \/ \E t \in Trajs : StartTrajectory(t)
    \/ \E t \in Trajs : EmptyStep(t)
    \/ \E t \in Trajs : AtomStep(t)
    \/ \E t \in Trajs : ReturnTrajectory(t)
    \/ Reduce

Spec == Init /\ [][Next]_vars

----------------------------------------------------------------------------
(* check_voxels: GridAnalyzer (squared distances) and Target (distances)   *)

\* scipy's cdist metric 'sqeuclidean' for one pair of points
sqeuclidean(p, q) ==
    (p[1] - q[1]) * (p[1] - q[1]) + (p[2] - q[2]) * (p[2] - q[2]) + (p[3] - q[3]) * (p[3] - q[3])

\* the largest r in lo..hi with r * r <= x
RECURSIVE SqrtBetween(_, _, _)
SqrtBetween(x, lo, hi) ==
    IF lo = hi THEN lo
    ELSE LET mid == (lo + hi + 1) \div 2
         IN  IF mid * mid <= x THEN SqrtBetween(x, mid, hi) ELSE SqrtBetween(x, lo, mid - 1)

\* distances are kept to two decimals: Centi(x) is the square root of x in hundredths
Centi(x) == SqrtBetween(x * 10000, 0, 100 * x + 100)

\* scipy's cdist metric 'euclidean' for one pair of points, in hundredths
euclidean(p, q) == Centi(sqeuclidean(p, q))

\* numpy argmin that keeps the last of several minimal entries
RECURSIVE argmin_Last(_, _, _)
argmin_Last(row, j, best) ==
    IF j > Len(row) THEN best
    ELSE argmin_Last(row, j + 1, IF row[j] <= row[best] THEN j ELSE best)

\* numpy argmin over one row: the index of the first minimal entry
RECURSIVE argmin(_, _, _)
argmin(row, j, best) ==
    IF j > Len(row) THEN best
    ELSE argmin(row, j + 1, IF row[j] < row[best] THEN j ELSE best)

\* voxel_centers = np.array([v.center for v in grid.voxels])
voxel_centers(grid) == [i \in 1..Len(grid.voxels) |-> grid.voxels[i].center]

\* GridAnalyzer.check_voxels(coords): cdist(..., 'sqeuclidean').argmin(axis=1)
check_voxels(grid, coords) ==
    LET centers == voxel_centers(grid)
        dist == [a \in 1..Len(coords) |->
                    [i \in 1..Len(centers) |-> sqeuclidean(coords[a], centers[i])]]
    IN  [a \in 1..Len(coords) |-> argmin(dist[a], 2, 1)]

\* voxel_dict.setdefault(voxel, []).append(feature) for each atom in turn
RECURSIVE GroupFeatures(_, _, _, _)
GroupFeatures(atomlist, min, i, dict) ==
    IF i > Len(atomlist) THEN dict
    ELSE GroupFeatures(atomlist, min, i + 1, list_dict(dict, min[i], atomlist[i].feature))

\* Target.check_voxels(grid_atoms): cdist(..., 'euclidean').argmin(axis=1), then the
\* features of the atoms grouped by voxel
Target_check_voxels(grid, atomlist) ==
    LET centers == voxel_centers(grid)
        atom_coords == [a \in 1..Len(atomlist) |-> atomlist[a].coord]
        dist == [a \in 1..Len(atom_coords) |->
                    [i \in 1..Len(centers) |-> euclidean(atom_coords[a], centers[i])]]
        min == [a \in 1..Len(atom_coords) |-> argmin(dist[a], 2, 1)]
    IN  GroupFeatures(atomlist, min, 1, EmptyDict)

----------------------------------------------------------------------------
(* SpecAssign: the atoms of one model inside the grid, then check_voxels   *)

MaxModelAtoms == 2

\* coordinates of atoms inside the cube center +- radius, per axis
Xs == {-4, 0, 5}

Ys == {0, 5}

Zs == {-4, 0}

AssignGrid == Grid(<<0, 0, 0>>, Radius, 2)

InitAssign ==
    /\ grid_atoms = << >>
    /\ voxel_inds = None
    /\ voxel_dict = None
    /\ apc = "input"
    /\ MergeIdle
    /\ GridIdle
    /\ FilterIdle
    /\ TargetIdle

\* get_grid_atoms found one more atom inside the grid
AddAtom ==
    /\ apc = "input"
    /\ Len(grid_atoms) < MaxModelAtoms
    /\ \E x \in Xs, y \in Ys, z \in Zs, f \in Features :
          grid_atoms' = Append(grid_atoms, [coord |-> <<x, y, z>>, feature |-> f])
    /\ UNCHANGED <<voxel_inds, voxel_dict, apc>>
    /\ UNCHANGED <<mergeVars, gridVars, filterVars, targetVars>>

\* GridAnalyzer.check_voxels on the coordinates of the atoms
CheckVoxels ==
    /\ apc = "input"
    /\ Len(grid_atoms) >= 1
    /\ voxel_inds' = check_voxels(AssignGrid, [a \in 1..Len(grid_atoms) |-> grid_atoms[a].coord])
    /\ apc' = "GridAnalyzer"
    /\ UNCHANGED <<grid_atoms, voxel_dict>>
    /\ UNCHANGED <<mergeVars, gridVars, filterVars, targetVars>>

\* Target.check_voxels on the atoms
TargetCheckVoxels ==
    /\ apc = "input"
    /\ Len(grid_atoms) >= 1
    /\ voxel_dict' = Target_check_voxels(AssignGrid, grid_atoms)
    /\ apc' = "Target"
    /\ UNCHANGED <<grid_atoms, voxel_inds>>
    /\ UNCHANGED <<mergeVars, gridVars, filterVars, targetVars>>

NextAssign == AddAtom \/ CheckVoxels \/ TargetCheckVoxels

SpecAssign == InitAssign /\ [][NextAssign]_vars

----------------------------------------------------------------------------
(* set_frequency_filter and save_pharmacophores                            *)
(* Cutoffs are rationals with denominator 10, kept as their numerators:    *)
(* a frequency freq passes the cutoff c when 10 * freq >= c.               *)

\* freq_dict_all: per feature, the frequencies of the voxels that registered it,
\* in voxel order
RECURSIVE CollectFeatures(_, _, _)
CollectFeatures(dict, voxel, todo) ==
    IF todo = {} THEN dict
    ELSE LET feature == CHOOSE f \in todo : TRUE
         IN  CollectFeatures(list_dict(dict, feature, voxel.freq_dict[feature]),
                             voxel, todo \ {feature})

RECURSIVE FreqDictAll(_, _, _)
FreqDictAll(grid, i, dict) ==
    IF i > Len(grid.voxels) THEN dict
    ELSE FreqDictAll(grid, i + 1,
                     CollectFeatures(dict, grid.voxels[i], DOMAIN grid.voxels[i].freq_dict))

SeqMin(seq) == CHOOSE x \in {seq[k] : k \in 1..Len(seq)} : \A k \in 1..Len(seq) : x <= seq[k]

SeqMax(seq) == CHOOSE x \in {seq[k] : k \in 1..Len(seq)} : \A k \in 1..Len(seq) : x >= seq[k]

\* number of bins of np.histogram's default
Bins == 10

\* the bin edges of np.histogram(freqlist), from the largest edge down
bin_edges_Descending(freqlist) ==
    LET first == SeqMin(freqlist)
        last  == SeqMax(freqlist)
    IN  IF first = last
        THEN [k \in 1..(Bins + 1) |-> (10 * first + 5) - (k - 1)]
        ELSE [k \in 1..(Bins + 1) |-> 10 * last - (k - 1) * (last - first)]

\* the bin edges of np.histogram(freqlist), in tenths: Bins + 1 equally spaced
\* values from the minimum to the maximum of freqlist, the range widened by 0.5 on
\* both sides when these are equal
bin_edges(freqlist) ==
    LET first == SeqMin(freqlist)
        last  == SeqMax(freqlist)
    IN  IF first = last
        THEN [k \in 1..(Bins + 1) |-> (10 * first - 5) + (k - 1)]
        ELSE [k \in 1..(Bins + 1) |-> 10 * first + (k - 1) * (last - first)]

\* an index check that admits the indices of the bins only
InRange_Bins(seq, idx) == 0 <= idx /\ idx < Len(seq) - 1

\* Python's seq[idx]: a negative idx counts from the end
InRange(seq, idx) == -Len(seq) <= idx /\ idx < Len(seq)

Item(seq, idx) == IF idx >= 0 THEN seq[idx + 1] ELSE seq[Len(seq) + idx + 1]

\* the loop "for element, freqlist in freq_dict_all.items()": the first
\* bin_edges[threshold] out of range raises IndexError
Thresholds(freq_dict_all, threshold) ==
    IF \E f \in DOMAIN freq_dict_all : ~InRange(bin_edges(freq_dict_all[f]), threshold)
    THEN [threshold_dict |-> EmptyDict, err |-> "IndexError"]
    ELSE [threshold_dict |-> [f \in DOMAIN freq_dict_all |->
                                 Item(bin_edges(freq_dict_all[f]), threshold)],
          err |-> "none"]

\* GridAnalyzer.set_frequency_filter(threshold)
set_frequency_filter(grid, threshold) == Thresholds(FreqDictAll(grid, 1, EmptyDict), threshold)

\* Target.set_frequency_filter(threshold)
Target_set_frequency_filter(grid, threshold) == Thresholds(FreqDictAll(grid, 1, EmptyDict), threshold)

\* format_line_pdb(coords, atomname, bfact): the fields of the record that vary
format_line_pdb(coords, atomname, bfact) == [coords |-> coords, atomname |-> atomname, bfact |-> bfact]

\* open(path, 'a') and write: the file is created when missing
AppendLine(fs, feature, line) ==
    IF feature \in DOMAIN fs
    THEN [fs EXCEPT ![feature] = Append(@, line)]
    ELSE [f \in DOMAIN fs \cup {feature} |-> IF f = feature THEN <<line>> ELSE fs[f]]

\* the records of one voxel: "for feature, freq in voxel.freq_dict.items()"
RECURSIVE WriteVoxel(_, _, _, _)
WriteVoxel(fs, voxel, thresholds, todo) ==
    IF todo = {} THEN [files |-> fs, err |-> "none"]
    ELSE LET feature == CHOOSE f \in todo : TRUE
             freq    == voxel.freq_dict[feature]
         IN  IF feature \notin DOMAIN thresholds THEN [files |-> fs, err |-> "KeyError"]
             ELSE WriteVoxel(IF 10 * freq >= thresholds[feature]
                             THEN AppendLine(fs, feature, format_line_pdb(voxel.center, feature, freq))
                             ELSE fs,
                             voxel, thresholds, todo \ {feature})

\* "for voxel in self.grid.voxels"
RECURSIVE WriteVoxels(_, _, _, _)
WriteVoxels(fs, grid, thresholds, i) ==
    IF i > Len(grid.voxels) THEN [files |-> fs, err |-> "none"]
    ELSE LET r == WriteVoxel(fs, grid.voxels[i], thresholds, DOMAIN grid.voxels[i].freq_dict)
         IN  IF r.err # "none" THEN r
             ELSE WriteVoxels(r.files, grid, thresholds, i + 1)

\* the first loop of GridAnalyzer.save_pharmacophores: open(path, 'w') and close
\* for every feature of threshold_dict
Truncate(fs, thresholds) ==
    [f \in DOMAIN fs \cup DOMAIN thresholds |-> IF f \in DOMAIN thresholds THEN << >> ELSE fs[f]]

\* GridAnalyzer.save_pharmacophores(outdir)
save_pharmacophores(fs, grid, thresholds) == WriteVoxels(Truncate(fs, thresholds), grid, thresholds, 1)

\* Target.save_pharmacophores(): every record is appended to its file
Target_save_pharmacophores(fs, grid, thresholds) == WriteVoxels(fs, grid, thresholds, 1)

----------------------------------------------------------------------------
(* SpecFilter: a filled grid, set_frequency_filter, then save_pharmacophores *)

MaxFreq == 3

MaxSaves == 2

\* the threshold arguments tried: bins 0..9, and values around the ends of the
\* eleven bin edges
ThresholdArgs == {-12, -11, -1} \cup 0..11

\* a voxel of the grid after freq occurrences of a feature were registered in it
RECURSIVE Filled(_, _, _)
Filled(voxel, feature, freq) ==
    IF freq = 0 THEN voxel
    ELSE count_feature(Filled(voxel, feature, freq - 1), feature, <<"t1", freq>>)

FilledGrid(a1, a2, a3, h) ==
    LET g == Grid(<<0, 0, 0>>, Radius, 2)
    IN  [g EXCEPT !.voxels[1] = Filled(@, "ARO", a1),
                  !.voxels[2] = Filled(Filled(@, "ARO", a2), "HBD", h),
                  !.voxels[3] = Filled(@, "ARO", a3)]

StaleRecord == format_line_pdb(<<0, 0, 0>>, "ARO", 1)

InitFilter ==
    /\ impl \in {"GridAnalyzer", "Target"}
    /\ fgrid \in {FilledGrid(a1, a2, a3, h) : a1 \in 0..MaxFreq, a2 \in 0..MaxFreq,
                                                a3 \in 0..MaxFreq, h \in {0, 2}}
    /\ threshold_dict = EmptyDict
    /\ lastArg = 0
    /\ prev = NoCall
    /\ ferr = "none"
    /\ files \in {EmptyDict, [f \in {"ARO"} |-> <<StaleRecord>>]}
    /\ files0 = files
    /\ nsaves = 0
    /\ fpc = "filled"
    /\ MergeIdle
    /\ GridIdle
    /\ AssignIdle
    /\ TargetIdle

\* set_frequency_filter(threshold), called at most twice in a run; an exception
\* ends the run
SetFrequencyFilter ==
    /\ fpc = "filled" \/ (fpc = "filtered" /\ ~prev.called)
    /\ \E threshold \in ThresholdArgs :
          LET r == IF impl = "GridAnalyzer"
                   THEN set_frequency_filter(fgrid, threshold)
                   ELSE Target_set_frequency_filter(fgrid, threshold)
          IN  /\ threshold_dict' = r.threshold_dict
              /\ ferr' = r.err
              /\ fpc' = IF r.err = "none" THEN "filtered" ELSE "failed"
              /\ lastArg' = threshold
    /\ prev' = IF fpc = "filtered"
               THEN [called |-> TRUE, arg |-> lastArg, dict |-> threshold_dict]
               ELSE NoCall
    /\ UNCHANGED <<impl, fgrid, files, files0, nsaves>>
    /\ UNCHANGED <<mergeVars, gridVars, assignVars, targetVars>>

\* GridAnalyzer.save_pharmacophores(outdir)
SavePharmacophores ==
    /\ impl = "GridAnalyzer"
    /\ fpc \in {"filtered", "saved"}
    /\ nsaves < MaxSaves
    /\ LET r == save_pharmacophores(files, fgrid, threshold_dict)
       IN  /\ files' = r.files
           /\ ferr' = r.err
           /\ fpc' = IF r.err = "none" THEN "saved" ELSE "failed"
    /\ nsaves' = nsaves + 1
    /\ prev' = NoCall
    /\ UNCHANGED <<impl, fgrid, threshold_dict, lastArg, files0>>
    /\ UNCHANGED <<mergeVars, gridVars, assignVars, targetVars>>

\* Target.save_pharmacophores()
TargetSavePharmacophores ==
    /\ impl = "Target"
    /\ fpc \in {"filtered", "saved"}
    /\ nsaves < MaxSaves
    /\ LET r == Target_save_pharmacophores(files, fgrid, threshold_dict)
       IN  /\ files' = r.files
           /\ ferr' = r.err
           /\ fpc' = IF r.err = "none" THEN "saved" ELSE "failed"
    /\ nsaves' = nsaves + 1
    /\ prev' = NoCall
    /\ UNCHANGED <<impl, fgrid, threshold_dict, lastArg, files0>>
    /\ UNCHANGED <<mergeVars, gridVars, assignVars, targetVars>>

NextFilter == SetFrequencyFilter \/ SavePharmacophores \/ TargetSavePharmacophores

SpecFilter == InitFilter /\ [][NextFilter]_vars

----------------------------------------------------------------------------
(* SpecTarget: the main program of target.py                               *)

\* target.filelist
filelist == <<"trajectory_1a.pdb", "trajectory_1b.pdb">>

\* the feature atoms a structure may hold inside the grid
AtomCoords == {<<-4, 0, -4>>, <<5, 5, 0>>}

\* the threshold of the call target.set_frequency_filter(2)
MainThreshold == 2

\* [... .append(a) for a in atomlist] on self.voxel_dict_all.setdefault(voxel, [])
RECURSIVE AppendAtoms(_, _, _, _)
AppendAtoms(all, voxel, atomlist, k) ==
    IF k > Len(atomlist) THEN all
    ELSE AppendAtoms(list_dict(all, voxel, atomlist[k]), voxel, atomlist, k + 1)

\* Target.merge_voxel_dicts(voxel_dict): "for voxel, atomlist in voxel_dict.items()"
RECURSIVE merge_voxel_dicts(_, _, _)
merge_voxel_dicts(all, d, todo) ==
    IF todo = {} THEN all
    ELSE LET voxel == CHOOSE v \in todo : TRUE
         IN  merge_voxel_dicts(AppendAtoms(all, voxel, d[voxel], 1), d, todo \ {voxel})

\* the inner loop of get_frequencies: freq_dict[atom] += 1, or = 1 the first time
RECURSIVE CountAtoms(_, _, _)
CountAtoms(freq_dict, atomlist, k) ==
    IF k > Len(atomlist) THEN freq_dict
    ELSE CountAtoms(frequency_dict(freq_dict, atomlist[k], 1), atomlist, k + 1)

\* Target.get_frequencies(): "for i, atomlist in self.voxel_dict_all.items()"
RECURSIVE get_frequencies(_, _, _)
get_frequencies(grid, all, todo) ==
    IF todo = {} THEN grid
    ELSE LET i == CHOOSE v \in todo : TRUE
         IN  get_frequencies(
                 [grid EXCEPT !.voxels[i] = set_frequencies(@, CountAtoms(EmptyDict, all[i], 1))],
                 all, todo \ {i})

NoDict == [v \in {0} |-> << >>]

InitTarget ==
    /\ dicts = [k \in 1..Len(filelist) |-> NoDict]
    /\ voxel_dict_all = EmptyDict
    /\ nmerged = 0
    /\ tgrid = Grid(<<0, 0, 0>>, Radius, 2)
    /\ tthreshold_dict = EmptyDict
    /\ tpc = "map"
    /\ MergeIdle
    /\ GridIdle
    /\ AssignIdle
    /\ FilterIdle

AtomLists(n) == UNION {[1..m -> [coord : AtomCoords, feature : Features]] : m \in 1..n}

\* a worker of the pool runs analyze_trajectory(file): get_grid_atoms, check_voxels
TargetAnalyzeTrajectory(k) ==
    /\ tpc = "map"
    /\ dicts[k] = NoDict
    /\ \E atomlist \in AtomLists(MaxModelAtoms) :
          dicts' = [dicts EXCEPT ![k] = Target_check_voxels(tgrid, atomlist)]
    /\ UNCHANGED <<voxel_dict_all, nmerged, tgrid, tthreshold_dict, tpc>>
    /\ UNCHANGED <<mergeVars, gridVars, assignVars, filterVars>>

\* p.map has every result; p.close(); p.join()
PoolJoin ==
    /\ tpc = "map"
    /\ \A k \in 1..Len(filelist) : dicts[k] # NoDict
    /\ tpc' = "fold"
    /\ UNCHANGED <<dicts, voxel_dict_all, nmerged, tgrid, tthreshold_dict>>
    /\ UNCHANGED <<mergeVars, gridVars, assignVars, filterVars>>

\* for d in dicts: target.merge_voxel_dicts(d)
MergeVoxelDicts ==
    /\ tpc = "fold"
    /\ nmerged < Len(dicts)
    /\ voxel_dict_all' = merge_voxel_dicts(voxel_dict_all, dicts[nmerged + 1],
                                           DOMAIN dicts[nmerged + 1])
    /\ nmerged' = nmerged + 1
    /\ UNCHANGED <<dicts, tgrid, tthreshold_dict, tpc>>
    /\ UNCHANGED <<mergeVars, gridVars, assignVars, filterVars>>

\* target.get_frequencies()
GetFrequencies ==
    /\ tpc = "fold"
    /\ nmerged = Len(dicts)
    /\ tgrid' = get_frequencies(tgrid, voxel_dict_all, DOMAIN voxel_dict_all)
    /\ tpc' = "filter"
    /\ UNCHANGED <<dicts, voxel_dict_all, nmerged, tthreshold_dict>>
    /\ UNCHANGED <<mergeVars, gridVars, assignVars, filterVars>>

\* target.set_frequency_filter(2)
TargetSetFrequencyFilter ==
    /\ tpc = "filter"
    /\ tthreshold_dict' = Target_set_frequency_filter(tgrid, MainThreshold).threshold_dict
    /\ tpc' = "done"
    /\ UNCHANGED <<dicts, voxel_dict_all, nmerged, tgrid>>
    /\ UNCHANGED <<mergeVars, gridVars, assignVars, filterVars>>

NextTarget ==
    \/ \E k \in 1..Len(filelist) : TargetAnalyzeTrajectory(k)
    \/ PoolJoin
    \/ MergeVoxelDicts
    \/ GetFrequencies
    \/ TargetSetFrequencyFilter

SpecTarget == InitTarget /\ [][NextTarget]_vars

----------------------------------------------------------------------------
(* Properties of merge_grids                                               *)

SameLattice(a, b) ==
    /\ a.center = b.center
    /\ a.radius = b.radius
    /\ a.resolution = b.resolution

FreqOf(voxel, f) == IF f \in DOMAIN voxel.freq_dict THEN voxel.freq_dict[f] ELSE 0

OriginsOf(voxel, f) == IF f \in DOMAIN voxel.origin_dict THEN voxel.origin_dict[f] ELSE << >>

Present(voxel) == DOMAIN voxel.freq_dict \cup DOMAIN voxel.origin_dict

\* voxel i of r holds, per feature of a or b, the sum of the counts and a's origins
\* followed by b's
SumAt(r, a, b, i) ==
    /\ DOMAIN r.voxels[i].freq_dict = DOMAIN a.voxels[i].freq_dict \cup DOMAIN b.voxels[i].freq_dict
    /\ \A f \in Present(a.voxels[i]) \cup Present(b.voxels[i]) :
          /\ FreqOf(r.voxels[i], f) = FreqOf(a.voxels[i], f) + FreqOf(b.voxels[i], f)
          /\ OriginsOf(r.voxels[i], f) = OriginsOf(a.voxels[i], f) \o OriginsOf(b.voxels[i], f)

\* C2: merge_grids on two grids over the same lattice returns a grid whose voxel i
\* holds, for every feature present in a.voxels[i] or b.voxels[i], the sum of both
\* counts (a missing count is 0) and a's origin list followed by b's.
C2_MergeSumsAndConcatenates ==
    (mpc = "merged" /\ SameLattice(ga, gb)) =>
        /\ merr = "none"
        /\ gm # None
        /\ Len(gm.voxels) = Len(ga.voxels)
        /\ \A i \in 1..Len(ga.voxels) : SumAt(gm, ga, gb, i)

\* two snapshots each holding 1 occurrence of a feature in the same voxel have been
\* merged to frequency 2 with 2 provenance entries
C2_Witness ==
    /\ mpc = "merged"
    /\ SameLattice(ga, gb)
    /\ gm # None
    /\ \E i \in 1..Len(ga.voxels), f \in Features :
          /\ FreqOf(ga.voxels[i], f) = 1
          /\ FreqOf(gb.voxels[i], f) = 1
          /\ FreqOf(gm.voxels[i], f) = 2
          /\ OriginsOf(gm.voxels[i], f) = <<<<"a", 1>>, <<"b", 1>>>>

\* C5: for every grid g and the all-empty grid e over the same lattice,
\* merge_grids(g, e) equals g field by field.
C5_EmptyIsRightIdentity ==
    (mpc = "merged" /\ SameLattice(ga, gb) /\ is_empty(gb)) =>
        /\ merr = "none"
        /\ gm = ga

\* a grid holding feature points has been merged with the empty grid
C5_Witness ==
    /\ mpc = "merged"
    /\ SameLattice(ga, gb)
    /\ is_empty(gb)
    /\ NPoints(ga) >= 2
    /\ gm = ga

----------------------------------------------------------------------------
(* Properties of the parallel analysis and its reduction                   *)

Template == Grid(<<0, 0, 0>>, Radius, 2)

AllReturned == \A t \in Trajs : wpc[t] = "returned"

Reduced == AllReturned /\ Cardinality(pool) = 1

RECURSIVE TotalFreq(_, _, _)
TotalFreq(ts, i, f) ==
    IF ts = {} THEN 0
    ELSE LET t == CHOOSE x \in ts : TRUE
         IN  FreqOf(snaps[t].voxels[i], f) + TotalFreq(ts \ {t}, i, f)

Elems(seq) == {seq[k] : k \in 1..Len(seq)}

AllOrigins(i, f) == UNION {Elems(OriginsOf(snaps[t].voxels[i], f)) : t \in Trajs}

\* C1: whatever the order and the grouping in which the snapshots of the
\* trajectories are reduced with merge_grids, the final grid holds, for every voxel
\* and feature, the sum of the snapshots' counts; the origins are the snapshots'
\* origins in some order.
C1_ReductionOrderIndependent ==
    Reduced =>
        \A e \in pool :
            LET g == heap[e.ref]
            IN  /\ e.trajs = Trajs
                /\ Len(g.voxels) = Len(Template.voxels)
                /\ \A i \in 1..Len(g.voxels) :
                      /\ DOMAIN g.voxels[i].freq_dict =
                             UNION {DOMAIN snaps[t].voxels[i].freq_dict : t \in Trajs}
                      /\ \A f \in Features :
                            /\ FreqOf(g.voxels[i], f) = TotalFreq(Trajs, i, f)
                            /\ Len(OriginsOf(g.voxels[i], f)) = TotalFreq(Trajs, i, f)
                            /\ Elems(OriginsOf(g.voxels[i], f)) = AllOrigins(i, f)

\* three snapshots that each hold one occurrence of the same feature in the same
\* voxel have been reduced to one grid
C1_Witness ==
    /\ Reduced
    /\ \E i \in HitVoxels, f \in Features :
          /\ \A t \in Trajs : FreqOf(snaps[t].voxels[i], f) = 1
          /\ \A e \in pool : FreqOf(heap[e.ref].voxels[i], f) = 3

----------------------------------------------------------------------------
(* Properties of check_voxels                                              *)

\* v is the lowest index among the voxels whose center is nearest to point p
NearestLowest(grid, p, v) ==
    /\ v \in 1..Len(grid.voxels)
    /\ \A j \in 1..Len(grid.voxels) :
          LET dv == sqeuclidean(p, grid.voxels[v].center)
              dj == sqeuclidean(p, grid.voxels[j].center)
          IN  /\ dv <= dj
              /\ dj = dv => v <= j

\* the atoms (by position in grid_atoms) whose nearest voxel is v
AtomsOf(v) == {a \in 1..Len(grid_atoms) : NearestLowest(AssignGrid, grid_atoms[a].coord, v)}

RECURSIVE SumLens(_, _)
SumLens(dict, keys) ==
    IF keys = {} THEN 0
    ELSE LET k == CHOOSE x \in keys : TRUE
         IN  Len(dict[k]) + SumLens(dict, keys \ {k})

\* the features of the atoms in as, in the order of the atoms
RECURSIVE FeaturesInOrder(_, _)
FeaturesInOrder(as, a) ==
    IF a > Len(grid_atoms) THEN << >>
    ELSE (IF a \in as THEN <<grid_atoms[a].feature>> ELSE << >>) \o FeaturesInOrder(as, a + 1)

\* C10: check_voxels maps every atom to exactly one voxel index, the lowest index
\* among the voxels whose center has minimum squared distance to the atom; the
\* per-voxel groups of Target.check_voxels hold every atom exactly once, each in
\* the group of that voxel.
C10_NearestVoxelLowestIndex ==
    /\ apc = "GridAnalyzer" =>
          /\ DOMAIN voxel_inds = 1..Len(grid_atoms)
          /\ \A a \in 1..Len(grid_atoms) :
                NearestLowest(AssignGrid, grid_atoms[a].coord, voxel_inds[a])
    /\ apc = "Target" =>
          /\ DOMAIN voxel_dict = {v \in 1..Len(AssignGrid.voxels) : AtomsOf(v) # {}}
          /\ SumLens(voxel_dict, DOMAIN voxel_dict) = Len(grid_atoms)
          /\ \A v \in DOMAIN voxel_dict : voxel_dict[v] = FeaturesInOrder(AtomsOf(v), 1)

\* an atom at the center of the grid, equally far from all eight voxel centers,
\* and an atom nearest to the last voxel have been assigned
C10_Witness ==
    /\ apc = "GridAnalyzer"
    /\ Len(grid_atoms) = 2
    /\ grid_atoms[1].coord = <<0, 0, 0>>
    /\ voxel_inds[1] = 1
    /\ grid_atoms[2].coord = <<5, 5, 0>>
    /\ voxel_inds[2] = 7

----------------------------------------------------------------------------
(* Properties of set_frequency_filter and save_pharmacophores              *)

\* the voxels whose frequency of feature f passes the cutoff of f
Survivors(grid, thresholds, f) ==
    {i \in 1..Len(grid.voxels) :
        /\ f \in DOMAIN grid.voxels[i].freq_dict
        /\ 10 * grid.voxels[i].freq_dict[f] >= thresholds[f]}

FeaturesIn(grid) == UNION {DOMAIN grid.voxels[i].freq_dict : i \in 1..Len(grid.voxels)}

Called == fpc \in {"filtered", "failed"} /\ nsaves = 0

\* C7: on the same grid, for every feature and every bin k with 0 <= k < 9, the
\* cutoff of bin k + 1 is at least the cutoff of bin k, and no more voxels survive
\* it.
C7_CutoffMonotone ==
    (fpc = "filtered" /\ prev.called /\ prev.arg \in 0..8 /\ lastArg = prev.arg + 1) =>
        /\ DOMAIN threshold_dict = DOMAIN prev.dict
        /\ \A f \in DOMAIN threshold_dict :
              /\ threshold_dict[f] >= prev.dict[f]
              /\ Survivors(fgrid, threshold_dict, f) \subseteq Survivors(fgrid, prev.dict, f)

\* the filter was set to bin k and then to bin k + 1, and a voxel that survived
\* the first cutoff does not survive the second
C7_Witness ==
    /\ fpc = "filtered"
    /\ prev.called
    /\ prev.arg \in 0..8
    /\ lastArg = prev.arg + 1
    /\ \E f \in DOMAIN threshold_dict :
          /\ Survivors(fgrid, threshold_dict, f) # Survivors(fgrid, prev.dict, f)
          /\ Survivors(fgrid, threshold_dict, f) # {}

Expected(f) ==
    {format_line_pdb(fgrid.voxels[i].center, f, fgrid.voxels[i].freq_dict[f]) :
        i \in Survivors(fgrid, threshold_dict, f)}

\* C9: after save_pharmacophores completes, the file of each feature with a
\* computed threshold holds exactly one record per voxel whose frequency reaches
\* the threshold and no other record, whatever the file held before and however
\* often the files were written.
C9_FilesHoldSurvivorsOnly ==
    fpc = "saved" =>
        \A f \in DOMAIN threshold_dict :
            /\ f \in DOMAIN files
            /\ Elems(files[f]) = Expected(f)
            /\ Len(files[f]) = Cardinality(Expected(f))

\* the same statement for the files written by GridAnalyzer.save_pharmacophores
GridAnalyzerFilesHoldSurvivorsOnly == impl = "GridAnalyzer" => C9_FilesHoldSurvivorsOnly

----------------------------------------------------------------------------
(* The voxel invariant of the data model                                   *)

\* every grid held by the program
AllGrids == {heap[r] : r \in DOMAIN heap} \cup {ga, gb, gm, gaPost, fgrid, tgrid}

\* C3: in every reachable state every voxel of every grid holds, for each
\* feature, as many origins as its frequency.
C3_OriginsMatchFrequency ==
    \A g \in AllGrids :
        \A i \in 1..Len(g.voxels) :
            \A f \in Features : Len(OriginsOf(g.voxels[i], f)) = FreqOf(g.voxels[i], f)

====
